---------------------------- MODULE Spec2Model ----------------------------
(***************************************************************************)
(* The recursive-descent parser of src/src/parser.rs as a stack machine.   *)
(* A frame is one activation of a grammar rule, its pc the statement of    *)
(* the rule's body that runs next.  The token stream (crate::lexer) is a   *)
(* sequence of token kinds with a read cursor.                             *)
(***************************************************************************)
EXTENDS Naturals, Sequences, FiniteSets

VARIABLES
    tokens,     \* the token kinds the lexer yields for the text, in order
    entry,      \* the rule the run was started with (parse starts program)
    cursor,     \* index of the lexer's current token; Len(tokens)+1 at end of input
    stack,      \* activations of rules, innermost last
    result,     \* value returned by the activation that ended last
    phase,      \* "free", "seed": first text given; "edited": a second text, derived from orig
    orig,       \* the first text of a seed run
    origResult, \* what the run on orig returned
    origCursor, \* the cursor when the run on orig returned (0: it has not)
    del,        \* position of orig deleted to obtain tokens (0: none or another edit)
    diags,      \* every diagnostic error_message_current has built in this run
    entered,    \* <<rule, cursor>> of every call made in this run
    reentered,  \* TRUE once a call repeated a member of entered
    eats,       \* number of times eat was invoked in this run
    blindEats,  \* number of times eat was invoked with no current token
    failAt      \* cursor when the first diagnostic was built (0: none)

vars == <<tokens, entry, cursor, stack, result, phase, orig, origResult,
          origCursor, del, diags, entered, reentered, eats, blindEats, failAt>>

---------------------------------------------------------------------------
(* Token kinds: the variants of C1Token the parser names.                  *)

TypeKeywords == {"KwBoolean", "KwFloat", "KwInt", "KwVoid"}

RelationalOps == {"Equal", "NotEqual", "LessEqual", "GreaterEqual", "Less", "Greater"}

AdditiveOps == {"Plus", "Minus", "Or"}

MultiplicativeOps == {"Asterisk", "Slash", "And"}

Constants == {"ConstInt", "ConstFloat", "ConstBoolean"}

Kinds ==
    {"Identifier", "LeftParenthesis", "RightParenthesis", "LeftBrace", "RightBrace",
     "KwIf", "KwReturn", "KwPrintf", "Assign", "Semicolon"}
    \cup TypeKeywords \cup RelationalOps \cup AdditiveOps \cup MultiplicativeOps
    \cup Constants

Rules ==
    {"program", "function_definition", "function_call", "statement_list", "block",
     "statement", "if_statement", "return_statement", "return_type", "printf",
     "stat_assignment", "assignment", "expr", "simpexpr", "term", "factor"}

---------------------------------------------------------------------------
(* The token stream.                                                       *)

NoToken == "None"

current_token == IF cursor <= Len(tokens) THEN tokens[cursor] ELSE NoToken

peek_token == IF cursor + 1 <= Len(tokens) THEN tokens[cursor + 1] ELSE NoToken

LineBreaks == {"Semicolon", "LeftBrace", "RightBrace"}

\* the text is laid out with a line break after every ";", "{" and "}"
LineOf(i) == 1 + Cardinality({j \in 1..(i - 1) : tokens[j] \in LineBreaks})

current_line_number == LineOf(cursor)

Lexeme(k) ==
    CASE k = "Identifier" -> "x"
      [] k = "LeftParenthesis" -> "("
      [] k = "RightParenthesis" -> ")"
      [] k = "LeftBrace" -> "{"
      [] k = "RightBrace" -> "}"
      [] k = "KwIf" -> "if"
      [] k = "KwReturn" -> "return"
      [] k = "KwPrintf" -> "printf"
      [] k = "Assign" -> "="
      [] k = "Semicolon" -> ";"
      [] k = "KwBoolean" -> "bool"
      [] k = "KwFloat" -> "float"
      [] k = "KwInt" -> "int"
      [] k = "KwVoid" -> "void"
      [] k = "Equal" -> "=="
      [] k = "NotEqual" -> "!="
      [] k = "LessEqual" -> "<="
      [] k = "GreaterEqual" -> ">="
      [] k = "Less" -> "<"
      [] k = "Greater" -> ">"
      [] k = "Plus" -> "+"
      [] k = "Minus" -> "-"
      [] k = "Or" -> "||"
      [] k = "Asterisk" -> "*"
      [] k = "Slash" -> "/"
      [] k = "And" -> "&&"
      [] k = "ConstInt" -> "0"
      [] k = "ConstFloat" -> "1.0"
      [] k = "ConstBoolean" -> "true"

current_text == Lexeme(tokens[cursor])

\* eat: the cursor after the stream advanced once (a no-op at end of input)
eat == IF cursor <= Len(tokens) THEN cursor + 1 ELSE cursor

---------------------------------------------------------------------------
(* Results and diagnostics.                                                *)

Pending == [status |-> "none", reason |-> "", form |-> "", line |-> 0, text |-> ""]

Ok == [status |-> "ok", reason |-> "", form |-> "", line |-> 0, text |-> ""]

IsErr(r) == r.status = "err"

\* mutant: the diagnostic built from the one-ahead token
error_message_peek(reason) ==
    IF peek_token = NoToken
    THEN [status |-> "err", reason |-> reason, form |-> ". Reached EOF",
          line |-> 0, text |-> ""]
    ELSE [status |-> "err", reason |-> reason, form |-> " at line , got '' instead.",
          line |-> LineOf(cursor + 1), text |-> Lexeme(tokens[cursor + 1])]

\* "{reason}. Reached EOF" or "{reason} at line {N}, got '{text}' instead."
error_message_current(reason) ==
    IF current_token = NoToken
    THEN [status |-> "err", reason |-> reason, form |-> ". Reached EOF",
          line |-> 0, text |-> ""]
    ELSE [status |-> "err", reason |-> reason, form |-> " at line , got '' instead.",
          line |-> current_line_number, text |-> current_text]

---------------------------------------------------------------------------
(* Lookahead predicates.                                                   *)

current_matches(token) == current_token # NoToken /\ current_token = token

\* mutant: the one-ahead test looks at the current token
next_matches_current(token) == current_token # NoToken /\ current_token = token

next_matches(token) == peek_token # NoToken /\ peek_token = token

any_match_current(toks) == \E t \in toks : current_matches(t)

next_can_be_function_call ==
    current_matches("Identifier") /\ next_matches("LeftParenthesis")

\* mutant: a call statement is predicted only when its ")" is seen two tokens ahead
next_can_be_statement_closed_call ==
    \/ current_matches("KwIf")
    \/ current_matches("KwReturn")
    \/ current_matches("KwPrintf")
    \/ (current_matches("Identifier") /\ next_matches("Assign"))
    \/ /\ current_matches("Identifier")
       /\ next_matches("LeftParenthesis")
       /\ cursor + 2 <= Len(tokens)
       /\ tokens[cursor + 2] = "RightParenthesis"

\* mutant: an identifier followed by "(" is not taken as the start of a statement
next_can_be_statement_without_call ==
    \/ current_matches("KwIf")
    \/ current_matches("KwReturn")
    \/ current_matches("KwPrintf")
    \/ (current_matches("Identifier") /\ next_matches("Assign"))

next_can_be_statement ==
    \/ current_matches("KwIf")
    \/ current_matches("KwReturn")
    \/ current_matches("KwPrintf")
    \/ (current_matches("Identifier") /\ next_matches("Assign"))
    \/ (current_matches("Identifier") /\ next_matches("LeftParenthesis"))

\* mutant: "{" is not taken as the start of a block
next_can_be_block_statement_only == next_can_be_statement

next_can_be_block == current_matches("LeftBrace") \/ next_can_be_statement

---------------------------------------------------------------------------
(* One statement of a rule body.                                           *)

Top == stack[Len(stack)]

At(rule) == stack # <<>> /\ ~IsErr(result) /\ Top.rule = rule

Popped == SubSeq(stack, 1, Len(stack) - 1)

WithPc(p) == [stack EXCEPT ![Len(stack)].pc = p]

\* the effect of one statement: the stream advanced or not, the stack after it,
\* the value handed to the caller, the call made (<<>>: none)
Effect(advance, stk, res, call) ==
    /\ cursor' = IF advance THEN eat ELSE cursor
    /\ stack' = stk
    /\ result' = res
    /\ eats' = IF advance THEN eats + 1 ELSE eats
    /\ blindEats' = IF advance /\ current_token = NoToken THEN blindEats + 1 ELSE blindEats
    /\ diags' = IF IsErr(res) THEN Append(diags, res) ELSE diags
    /\ failAt' = IF IsErr(res) /\ failAt = 0 THEN cursor ELSE failAt
    /\ entered' = IF call = <<>> THEN entered ELSE entered \cup {call}
    /\ reentered' = (reentered \/ (call # <<>> /\ call \in entered))
    /\ UNCHANGED <<tokens, entry, phase, orig, origResult, origCursor, del>>

\* self.eat(); continue with statement p
EatGoto(p) == Effect(TRUE, WithPc(p), Pending, <<>>)

\* self.rule()?; continue with statement p once it returned Ok
Call(rule, p) ==
    Effect(FALSE, Append(WithPc(p), [rule |-> rule, pc |-> 0]), Pending,
           <<rule, cursor>>)

\* self.eat(); self.rule()?;
EatCall(rule, p) ==
    Effect(TRUE, Append(WithPc(p), [rule |-> rule, pc |-> 0]), Pending,
           <<rule, eat>>)

\* Ok(())
ReturnOk == Effect(FALSE, Popped, Ok, <<>>)

\* self.eat(); Ok(())
EatReturnOk == Effect(TRUE, Popped, Ok, <<>>)

\* return Err(self.error_message_current(reason))
Raise(reason) == Effect(FALSE, Popped, error_message_current(reason), <<>>)

\* mutant: the stream is advanced whether or not the token matched
check_and_eat_token_eating_anyway(token, error_message, p) ==
    IF current_matches(token)
    THEN EatGoto(p)
    ELSE Effect(TRUE, Popped, error_message_current(error_message), <<>>)

\* self.check_and_eat_token(token, error_message)?; continue with statement p
check_and_eat_token(token, error_message, p) ==
    IF current_matches(token) THEN EatGoto(p) ELSE Raise(error_message)

\* self.check_and_eat_token(token, error_message)?; Ok(())
check_and_eat_token_last(token, error_message) ==
    IF current_matches(token) THEN EatReturnOk ELSE Raise(error_message)

---------------------------------------------------------------------------
(* The rules.                                                              *)

\* program ::= ( functiondefinition )* <EOF>
program ==
    /\ At("program")
    /\ IF current_token # NoToken
       THEN Call("function_definition", 0)
       ELSE IF current_token # NoToken
            THEN Raise("Expected EOF")
            ELSE ReturnOk

\* functiondefinition ::= type <ID> "(" ")" "{" statementlist "}"
function_definition ==
    /\ At("function_definition")
    /\ CASE Top.pc = 0 -> Call("return_type", 1)
         [] Top.pc = 1 -> check_and_eat_token("Identifier", "Expected function name", 2)
         [] Top.pc = 2 -> check_and_eat_token("LeftParenthesis", "Expected '('", 3)
         [] Top.pc = 3 -> check_and_eat_token("RightParenthesis", "Expected ')'", 4)
         [] Top.pc = 4 -> check_and_eat_token("LeftBrace", "Expected '{'", 5)
         [] Top.pc = 5 -> Call("statement_list", 6)
         [] Top.pc = 6 -> check_and_eat_token_last("RightBrace", "Expected '}'")

\* mutant: the reason given for a missing ")" is the one of the line above
function_call_wrong_reason ==
    /\ At("function_call")
    /\ CASE Top.pc = 0 -> check_and_eat_token("Identifier", "Expected function name", 1)
         [] Top.pc = 1 -> check_and_eat_token("LeftParenthesis", "Expected '('", 2)
         [] Top.pc = 2 -> check_and_eat_token_last("RightParenthesis", "Expected '('")

\* functioncall ::= <ID> "(" ")"
function_call ==
    /\ At("function_call")
    /\ CASE Top.pc = 0 -> check_and_eat_token("Identifier", "Expected function name", 1)
         [] Top.pc = 1 -> check_and_eat_token("LeftParenthesis", "Expected '('", 2)
         [] Top.pc = 2 -> check_and_eat_token_last("RightParenthesis", "Expected ')'")

\* statementlist ::= ( block )*
statement_list ==
    /\ At("statement_list")
    /\ IF next_can_be_block THEN Call("block", 0) ELSE ReturnOk

\* mutant: the "{" is not consumed before the statement list is parsed
block_without_eat ==
    /\ At("block")
    /\ CASE Top.pc = 0 ->
              IF current_matches("LeftBrace")
              THEN Call("statement_list", 1)
              ELSE Call("statement", 2)
         [] Top.pc = 1 -> check_and_eat_token_last("RightBrace", "Expected '}'")
         [] Top.pc = 2 -> ReturnOk

\* block ::= "{" statementlist "}" | statement
block ==
    /\ At("block")
    /\ CASE Top.pc = 0 ->
              IF current_matches("LeftBrace")
              THEN EatCall("statement_list", 1)
              ELSE Call("statement", 2)
         [] Top.pc = 1 -> check_and_eat_token_last("RightBrace", "Expected '}'")
         [] Top.pc = 2 -> ReturnOk

\* statement ::= ifstatement | returnstatement ";" | printf ";"
\*             | statassignment ";" | functioncall ";"
statement ==
    /\ At("statement")
    /\ CASE Top.pc = 0 ->
              IF current_matches("KwIf") THEN Call("if_statement", 5)
              ELSE IF current_matches("KwReturn") THEN Call("return_statement", 1)
              ELSE IF current_matches("KwPrintf") THEN Call("printf", 2)
              ELSE IF current_matches("Identifier") /\ next_matches("Assign")
                   THEN Call("stat_assignment", 3)
              ELSE IF current_matches("Identifier") /\ next_matches("LeftParenthesis")
                   THEN Call("function_call", 4)
              ELSE Raise("Expected statement")
         [] Top.pc = 1 ->
              check_and_eat_token_last("Semicolon", "Expected ';' after return statement")
         [] Top.pc = 2 ->
              check_and_eat_token_last("Semicolon", "Expected ';' after printf statement")
         [] Top.pc = 3 ->
              check_and_eat_token_last("Semicolon", "Expected ';' after assignment")
         [] Top.pc = 4 ->
              check_and_eat_token_last("Semicolon", "Expected ';' after function call")
         [] Top.pc = 5 -> ReturnOk

\* ifstatement ::= <KW_IF> "(" assignment ")" block
if_statement ==
    /\ At("if_statement")
    /\ CASE Top.pc = 0 -> check_and_eat_token("KwIf", "Expected 'if' keyword", 1)
         [] Top.pc = 1 -> check_and_eat_token("LeftParenthesis", "Expected '('", 2)
         [] Top.pc = 2 -> Call("assignment", 3)
         [] Top.pc = 3 -> check_and_eat_token("RightParenthesis", "Expected ')'", 4)
         [] Top.pc = 4 -> Call("block", 5)
         [] Top.pc = 5 -> ReturnOk

\* mutant: the end of input after return is not told apart from a token
return_statement_without_eof_case ==
    /\ At("return_statement")
    /\ CASE Top.pc = 0 -> check_and_eat_token("KwReturn", "Expected 'return' keyword", 1)
         [] Top.pc = 1 ->
              IF ~current_matches("Semicolon")
              THEN Call("assignment", 2)
              ELSE ReturnOk
         [] Top.pc = 2 -> ReturnOk

\* returnstatement ::= <KW_RETURN> ( assignment )?
return_statement ==
    /\ At("return_statement")
    /\ CASE Top.pc = 0 -> check_and_eat_token("KwReturn", "Expected 'return' keyword", 1)
         [] Top.pc = 1 ->
              IF current_token # NoToken
              THEN IF ~current_matches("Semicolon")
                   THEN Call("assignment", 2)
                   ELSE ReturnOk
              ELSE ReturnOk
         [] Top.pc = 2 -> ReturnOk

\* mutant: int is missing from the valid types
return_type_without_int ==
    /\ At("return_type")
    /\ IF any_match_current({"KwBoolean", "KwFloat", "KwVoid"})
       THEN EatReturnOk
       ELSE Raise("Expected type keyword")

\* return_type ::= <KW_BOOLEAN> | <KW_FLOAT> | <KW_INT> | <KW_VOID>
return_type ==
    /\ At("return_type")
    /\ IF any_match_current({"KwBoolean", "KwFloat", "KwInt", "KwVoid"})
       THEN EatReturnOk
       ELSE Raise("Expected type keyword")

\* printf ::= <KW_PRINTF> "(" assignment ")"
printf ==
    /\ At("printf")
    /\ CASE Top.pc = 0 -> check_and_eat_token("KwPrintf", "Expected 'printf' keyword", 1)
         [] Top.pc = 1 -> check_and_eat_token("LeftParenthesis", "Expected '('", 2)
         [] Top.pc = 2 -> Call("assignment", 3)
         [] Top.pc = 3 -> check_and_eat_token_last("RightParenthesis", "Expected ')'")

\* statassignment ::= <ID> "=" assignment
stat_assignment ==
    /\ At("stat_assignment")
    /\ CASE Top.pc = 0 -> check_and_eat_token("Identifier", "Expected identifier", 1)
         [] Top.pc = 1 -> check_and_eat_token("Assign", "Expected '='", 2)
         [] Top.pc = 2 -> Call("assignment", 3)
         [] Top.pc = 3 -> ReturnOk

\* assignment ::= ( ( <ID> "=" assignment ) | expr )
assignment ==
    /\ At("assignment")
    /\ CASE Top.pc = 0 ->
              IF current_matches("Identifier") /\ next_matches("Assign")
              THEN check_and_eat_token("Identifier", "Expected identifier", 1)
              ELSE Call("expr", 3)
         [] Top.pc = 1 -> check_and_eat_token("Assign", "Expected '='", 2)
         [] Top.pc = 2 -> Call("assignment", 3)
         [] Top.pc = 3 -> ReturnOk

\* expr ::= simpexpr ( ( "==" | "!=" | "<=" | ">=" | "<" | ">" ) simpexpr )?
expr ==
    /\ At("expr")
    /\ CASE Top.pc = 0 -> Call("simpexpr", 1)
         [] Top.pc = 1 ->
              IF any_match_current({"Equal", "NotEqual", "LessEqual", "GreaterEqual",
                                    "Less", "Greater"})
              THEN EatCall("simpexpr", 2)
              ELSE ReturnOk
         [] Top.pc = 2 -> ReturnOk

\* simpexpr ::= ( "-" )? term ( ( "+" | "-" | "||" ) term )*
simpexpr ==
    /\ At("simpexpr")
    /\ CASE Top.pc = 0 ->
              IF current_matches("Minus") THEN EatCall("term", 1) ELSE Call("term", 1)
         [] Top.pc = 1 ->
              IF any_match_current({"Plus", "Minus", "Or"})
              THEN EatCall("term", 1)
              ELSE ReturnOk

\* term ::= factor ( ( "*" | "/" | "&&" ) factor )*
term ==
    /\ At("term")
    /\ CASE Top.pc = 0 -> Call("factor", 1)
         [] Top.pc = 1 ->
              IF any_match_current({"Asterisk", "Slash", "And"})
              THEN EatCall("factor", 1)
              ELSE ReturnOk

\* factor ::= <CONST_INT> | <CONST_FLOAT> | <CONST_BOOLEAN> | functioncall | <ID>
\*          | "(" assignment ")"
factor ==
    /\ At("factor")
    /\ CASE Top.pc = 0 ->
              IF \/ current_matches("ConstInt")
                 \/ current_matches("ConstFloat")
                 \/ current_matches("ConstBoolean")
              THEN EatReturnOk
              ELSE IF next_can_be_function_call THEN Call("function_call", 2)
              ELSE IF current_matches("Identifier") THEN EatReturnOk
              ELSE IF current_matches("LeftParenthesis") THEN EatCall("assignment", 1)
              ELSE Raise("Expected factor")
         [] Top.pc = 1 -> check_and_eat_token_last("RightParenthesis", "Expected ')'")
         [] Top.pc = 2 -> ReturnOk

\* mutant: the caller answers a callee's failure with a diagnostic of its own
propagate_rewrapped ==
    /\ stack # <<>>
    /\ IsErr(result)
    /\ stack' = Popped
    /\ result' = error_message_current("Expected statement")
    /\ diags' = Append(diags, result')
    /\ UNCHANGED <<tokens, entry, cursor, phase, orig, origResult, origCursor, del,
                   entered, reentered, eats, blindEats, failAt>>

\* the ? after a call: a rule whose callee returned Err returns that Err itself
propagate ==
    /\ stack # <<>>
    /\ IsErr(result)
    /\ stack' = Popped
    /\ result' = result
    /\ UNCHANGED <<tokens, entry, cursor, phase, orig, origResult, origCursor, del,
                   diags, entered, reentered, eats, blindEats, failAt>>

---------------------------------------------------------------------------
(* Texts: what the lexer yields for the source text handed to the parser.  *)

\* longest text enumerated over every token kind
MaxFree == 2

\* deepest nesting of "{ }" and "( )" wrapped around the seed texts
MaxNest == 1

FreeTexts == UNION {[1..n -> Kinds] : n \in 0..MaxFree}

RECURSIVE Wrap(_, _, _, _)
Wrap(open, text, close, n) ==
    IF n = 0 THEN text ELSE <<open>> \o Wrap(open, text, close, n - 1) \o <<close>>

\* texts of the rule assignment
ExprBases ==
    {<<"ConstInt">>,
     <<"Identifier", "Assign", "Identifier", "Plus", "ConstFloat">>,
     <<"Minus", "Identifier", "Asterisk", "ConstBoolean">>,
     <<"Identifier", "LeftParenthesis", "RightParenthesis">>,
     <<"Identifier", "Equal", "ConstInt">>}

ExprTexts ==
    {Wrap("LeftParenthesis", e, "RightParenthesis", n) : e \in ExprBases, n \in 0..MaxNest}

\* texts of the rule statement
StatementTexts ==
    {<<"Identifier", "Assign">> \o e \o <<"Semicolon">> : e \in ExprBases}
    \cup {<<"KwReturn">> \o e \o <<"Semicolon">> : e \in ExprTexts}
    \cup {<<"KwReturn", "Semicolon">>,
          <<"Identifier", "LeftParenthesis", "RightParenthesis", "Semicolon">>,
          <<"KwPrintf", "LeftParenthesis", "Minus", "Identifier", "Asterisk",
            "ConstBoolean", "RightParenthesis", "Semicolon">>,
          <<"KwIf", "LeftParenthesis", "Identifier", "Equal", "ConstInt",
            "RightParenthesis", "Identifier", "LeftParenthesis", "RightParenthesis",
            "Semicolon">>,
          <<"KwIf", "LeftParenthesis", "Identifier", "LeftParenthesis",
            "RightParenthesis", "RightParenthesis", "LeftBrace", "KwReturn",
            "ConstInt", "Semicolon", "RightBrace">>}

\* texts of the rule statement_list
BodyBases ==
    {<<>>,
     <<"Identifier", "Assign", "ConstInt", "Semicolon">>,
     <<"Identifier", "LeftParenthesis", "RightParenthesis", "Semicolon">>,
     <<"Identifier", "Assign", "ConstInt", "Semicolon",
       "Identifier", "LeftParenthesis", "RightParenthesis", "Semicolon">>,
     <<"KwReturn", "Semicolon">>,
     <<"KwReturn", "Identifier", "Plus", "ConstFloat", "Semicolon">>,
     <<"KwPrintf", "LeftParenthesis", "Identifier", "RightParenthesis", "Semicolon">>,
     <<"KwIf", "LeftParenthesis", "Identifier", "Less", "ConstInt", "RightParenthesis",
       "Identifier", "Assign", "LeftParenthesis", "ConstInt", "RightParenthesis",
       "Semicolon">>,
     <<"KwIf", "LeftParenthesis", "ConstBoolean", "RightParenthesis", "LeftBrace",
       "RightBrace", "KwReturn", "Semicolon">>}

BodyTexts == {Wrap("LeftBrace", b, "RightBrace", n) : b \in BodyBases, n \in 0..MaxNest}

\* texts of which statement_list takes a proper prefix, or nothing
StoppingTexts ==
    {<<"KwInt", "Identifier", "Assign", "ConstInt", "Semicolon">>,
     <<"LeftBrace", "Identifier", "Assign", "ConstInt", "Semicolon", "RightBrace",
       "KwInt", "Identifier", "Assign", "ConstInt", "Semicolon",
       "Identifier", "Semicolon", "LeftBrace", "RightBrace">>,
     <<"Identifier", "LeftParenthesis", "Semicolon">>}

Function(type, body) ==
    <<type, "Identifier", "LeftParenthesis", "RightParenthesis", "LeftBrace">>
    \o body \o <<"RightBrace">>

\* texts of the rule program
ProgramTexts ==
    {Function("KwInt", b) : b \in BodyTexts}
    \cup {Function("KwVoid", <<>>) \o Function("KwFloat", <<"KwReturn", "ConstFloat", "Semicolon">>),
          <<"KwInt", "Identifier", "Assign", "ConstInt", "Semicolon">>,
          <<"KwInt", "Identifier", "LeftParenthesis", "RightParenthesis", "LeftBrace",
            "KwReturn">>,
          <<"KwInt", "Identifier", "LeftParenthesis", "RightParenthesis", "LeftBrace",
            "KwReturn", "Identifier", "Assign", "Minus", "ConstInt">>}

SeedTexts(rule) ==
    CASE rule = "program" -> ProgramTexts
      [] rule = "function_definition" -> {Function("KwBoolean", <<"KwReturn", "Semicolon">>)}
      [] rule = "statement_list" -> BodyTexts \cup StoppingTexts
      [] rule = "block" -> BodyTexts
      [] rule = "statement" -> StatementTexts
      [] rule = "return_statement" -> {<<"KwReturn">> \o e : e \in ExprTexts}
      [] rule \in {"assignment", "expr", "simpexpr", "term", "factor"} -> ExprTexts
      [] OTHER -> {}

Delete(t, i) == SubSeq(t, 1, i - 1) \o SubSeq(t, i + 1, Len(t))

Replace(t, i, k) == [t EXCEPT ![i] = k]

Insert(t, i, k) == SubSeq(t, 1, i) \o <<k>> \o SubSeq(t, i + 1, Len(t))

\* the texts one token away from t, with the position deleted if one was
Edits(t) ==
    {[text |-> Delete(t, i), del |-> i] : i \in 1..Len(t)}
    \cup {[text |-> Replace(t, i, k), del |-> 0] : i \in 1..Len(t), k \in Kinds}
    \cup {[text |-> Insert(t, i, k), del |-> 0] : i \in 0..Len(t), k \in Kinds}

\* initialize_parser(text) followed by the call of the entry rule
Begin(rule, text, ph) ==
    /\ tokens = text
    /\ entry = rule
    /\ cursor = 1
    /\ stack = <<[rule |-> rule, pc |-> 0]>>
    /\ result = Pending
    /\ phase = ph
    /\ orig = text
    /\ origResult = Pending
    /\ origCursor = 0
    /\ del = 0
    /\ diags = <<>>
    /\ entered = {<<rule, 1>>}
    /\ reentered = FALSE
    /\ eats = 0
    /\ blindEats = 0
    /\ failAt = 0

Init ==
    \E rule \in Rules :
        \E text \in FreeTexts \cup SeedTexts(rule) :
            Begin(rule, text, IF text \in SeedTexts(rule) THEN "seed" ELSE "free")

\* the seed texts with one token taken out
Shortened(rule) == UNION {{Delete(t, i) : i \in 1..Len(t)} : t \in SeedTexts(rule)}

LiveInit ==
    \E rule \in Rules :
        \E text \in FreeTexts \cup SeedTexts(rule) \cup Shortened(rule) :
            Begin(rule, text, "free")

\* the entry rule run again, on a text one token away from the seed text
reparse ==
    /\ stack = <<>>
    /\ phase = "seed"
    /\ \E e \in Edits(tokens) :
        /\ tokens' = e.text
        /\ del' = e.del
    /\ cursor' = 1
    /\ stack' = <<[rule |-> entry, pc |-> 0]>>
    /\ result' = Pending
    /\ phase' = "edited"
    /\ origResult' = result
    /\ origCursor' = cursor
    /\ diags' = <<>>
    /\ entered' = {<<entry, 1>>}
    /\ reentered' = FALSE
    /\ eats' = 0
    /\ blindEats' = 0
    /\ failAt' = 0
    /\ UNCHANGED <<entry, orig>>

Step ==
    \/ program
    \/ function_definition
    \/ function_call
    \/ statement_list
    \/ block
    \/ statement
    \/ if_statement
    \/ return_statement
    \/ return_type
    \/ printf
    \/ stat_assignment
    \/ assignment
    \/ expr
    \/ simpexpr
    \/ term
    \/ factor
    \/ propagate

Next == Step \/ reparse

Spec == Init /\ [][Next]_vars

\* one run on one text.  The run is one sequential call chain: a step that can
\* be taken is taken.
LiveSpec == LiveInit /\ [][Step]_vars /\ WF_vars(Step)

---------------------------------------------------------------------------
(* The grammar of the language, as the set of positions where a phrase of  *)
(* each non-terminal that starts after the first i tokens of t can end.    *)
(* Every alternative is followed; nothing is decided by lookahead.         *)

G_tok(t, i, ks) == IF i < Len(t) /\ t[i + 1] \in ks THEN {i + 1} ELSE {}

G_functioncall(t, i) ==
    UNION {UNION {G_tok(t, k, {"RightParenthesis"}) : k \in G_tok(t, j, {"LeftParenthesis"})} :
           j \in G_tok(t, i, {"Identifier"})}

RECURSIVE G_assignment(_, _), G_expr(_, _), G_simpexpr(_, _), G_simprest(_, _),
          G_term(_, _), G_termrest(_, _), G_factor(_, _)

\* factor ::= <CONST_INT> | <CONST_FLOAT> | <CONST_BOOL> | functioncall | <ID> | "(" assignment ")"
G_factor(t, i) ==
    G_tok(t, i, Constants) \cup G_functioncall(t, i) \cup G_tok(t, i, {"Identifier"})
    \cup UNION {UNION {G_tok(t, k, {"RightParenthesis"}) : k \in G_assignment(t, j)} :
                j \in G_tok(t, i, {"LeftParenthesis"})}

\* ( ( "*" | "/" | "&&" ) factor )*
G_termrest(t, i) ==
    {i} \cup UNION {UNION {G_termrest(t, k) : k \in G_factor(t, j)} :
                    j \in G_tok(t, i, MultiplicativeOps)}

\* term ::= factor ( ( "*" | "/" | "&&" ) factor )*
G_term(t, i) == UNION {G_termrest(t, j) : j \in G_factor(t, i)}

\* ( ( "+" | "-" | "||" ) term )*
G_simprest(t, i) ==
    {i} \cup UNION {UNION {G_simprest(t, k) : k \in G_term(t, j)} :
                    j \in G_tok(t, i, AdditiveOps)}

\* simpexpr ::= ( "-" )? term ( ( "+" | "-" | "||" ) term )*
G_simpexpr(t, i) ==
    UNION {UNION {G_simprest(t, k) : k \in G_term(t, j)} :
           j \in {i} \cup G_tok(t, i, {"Minus"})}

\* expr ::= simpexpr ( ( "==" | "!=" | "<=" | ">=" | "<" | ">" ) simpexpr )?
G_expr(t, i) ==
    LET first == G_simpexpr(t, i)
    IN  first \cup UNION {UNION {G_simpexpr(t, k) : k \in G_tok(t, j, RelationalOps)} :
                          j \in first}

\* assignment ::= ( <ID> "=" assignment ) | expr
G_assignment(t, i) ==
    G_expr(t, i)
    \cup UNION {UNION {G_assignment(t, k) : k \in G_tok(t, j, {"Assign"})} :
                j \in G_tok(t, i, {"Identifier"})}

\* statassignment ::= <ID> "=" assignment
G_statassignment(t, i) ==
    UNION {UNION {G_assignment(t, k) : k \in G_tok(t, j, {"Assign"})} :
           j \in G_tok(t, i, {"Identifier"})}

\* "(" assignment ")"
G_parenthesized(t, i) ==
    UNION {UNION {G_tok(t, k, {"RightParenthesis"}) : k \in G_assignment(t, j)} :
           j \in G_tok(t, i, {"LeftParenthesis"})}

\* printf ::= <KW_PRINTF> "(" assignment ")"
G_printf(t, i) == UNION {G_parenthesized(t, j) : j \in G_tok(t, i, {"KwPrintf"})}

\* returnstatement ::= <KW_RETURN> ( assignment )?
G_returnstatement(t, i) ==
    LET kw == G_tok(t, i, {"KwReturn"})
    IN  kw \cup UNION {G_assignment(t, j) : j \in kw}

RECURSIVE G_statementlist(_, _), G_block(_, _), G_statement(_, _), G_ifstatement(_, _)

\* ifstatement ::= <KW_IF> "(" assignment ")" block
G_ifstatement(t, i) ==
    UNION {UNION {G_block(t, k) : k \in G_parenthesized(t, j)} :
           j \in G_tok(t, i, {"KwIf"})}

\* statement ::= ifstatement | returnstatement ";" | printf ";" | statassignment ";"
\*             | functioncall ";"
G_statement(t, i) ==
    G_ifstatement(t, i)
    \cup UNION {G_tok(t, j, {"Semicolon"}) :
                j \in G_returnstatement(t, i) \cup G_printf(t, i)
                      \cup G_statassignment(t, i) \cup G_functioncall(t, i)}

\* block ::= "{" statementlist "}" | statement
G_block(t, i) ==
    G_statement(t, i)
    \cup UNION {UNION {G_tok(t, k, {"RightBrace"}) : k \in G_statementlist(t, j)} :
                j \in G_tok(t, i, {"LeftBrace"})}

\* statementlist ::= ( block )*
G_statementlist(t, i) == {i} \cup UNION {G_statementlist(t, j) : j \in G_block(t, i)}

\* functiondefinition ::= returntype <ID> "(" ")" "{" statementlist "}"
G_functiondefinition(t, i) ==
    UNION {UNION {UNION {G_tok(t, l, {"RightBrace"}) : l \in G_statementlist(t, k)} :
                  k \in G_tok(t, j, {"LeftBrace"})} :
           j \in UNION {G_functioncall(t, h) : h \in G_tok(t, i, TypeKeywords)}}

RECURSIVE G_functions(_, _)

\* ( functiondefinition )*
G_functions(t, i) == {i} \cup UNION {G_functions(t, j) : j \in G_functiondefinition(t, i)}

\* program ::= ( functiondefinition )* <EOF>
Derivable(t) == Len(t) \in G_functions(t, 0)

---------------------------------------------------------------------------
(* Claims.                                                                 *)

Done == stack = <<>>

Accepted == Done /\ result = Ok

Rejected == Done /\ IsErr(result)

AtEndOfInput == cursor = Len(tokens) + 1

\* C1: parse (the rule program) accepts a text exactly when the grammar rule
\* program ::= ( functiondefinition )* <EOF> derives it, and when it accepts,
\* every token was consumed: the cursor is at end of input.
C1_AcceptsExactlyTheGrammar ==
    (Done /\ entry = "program") =>
        /\ (result = Ok) <=> Derivable(tokens)
        /\ (result = Ok) => AtEndOfInput

\* an edited program with a statement in its body was accepted
C1_Witness ==
    /\ Accepted
    /\ entry = "program"
    /\ phase = "edited"
    /\ Len(tokens) > 12

Max(S) == CHOOSE m \in S : \A n \in S : n <= m

\* t is some function definitions followed by at least one token that does not
\* continue into another function definition
HasTrailingTokens(t) == Max(G_functions(t, 0)) < Len(t)

\* C2: a text made of function definitions followed by further tokens that do
\* not form another function definition is rejected by program with the
\* reason "Expected EOF".
C2_TrailingTokensExpectedEOF ==
    (Done /\ entry = "program" /\ HasTrailingTokens(tokens)) =>
        (IsErr(result) /\ result.reason = "Expected EOF")

Closers == {"RightParenthesis", "RightBrace"}

\* the run is parse on an accepted text with the closing delimiter at del taken out
ClosingDelimiterDeleted ==
    /\ entry = "program"
    /\ phase = "edited"
    /\ origResult = Ok
    /\ del > 0
    /\ orig[del] \in Closers

\* C3: an accepted text with one ")" or one "}" deleted is rejected, and the
\* reason names the deleted delimiter: "Expected ')'" or "Expected '}'".
C3_MissingCloserIsNamed ==
    (Done /\ ClosingDelimiterDeleted) =>
        /\ IsErr(result)
        /\ result.reason = IF orig[del] = "RightParenthesis"
                           THEN "Expected ')'"
                           ELSE "Expected '}'"

\* a ")" that closed a parenthesized factor or a call argument list inside a
\* body was deleted, and the run ended
C3_Witness ==
    /\ Done
    /\ ClosingDelimiterDeleted
    /\ orig[del] = "RightParenthesis"
    /\ del > 6

\* int x = 0;
IntXAssignZero == <<"KwInt", "Identifier", "Assign", "ConstInt", "Semicolon">>

ShapeAt(d, c) ==
    IF c > Len(tokens)
    THEN d.form = ". Reached EOF" /\ d.line = 0 /\ d.text = ""
    ELSE /\ d.form = " at line , got '' instead."
         /\ d.line = LineOf(c)
         /\ d.text = Lexeme(tokens[c])

\* C5: every diagnostic is "{reason}. Reached EOF" when no current token was
\* left at the failure, and otherwise "{reason} at line {N}, got '{text}'
\* instead." with the line and lexeme of the token at the cursor.
C5_DiagnosticShape ==
    /\ \A i \in 1..Len(diags) : diags[i].status = "err" /\ ShapeAt(diags[i], failAt)
    /\ IsErr(result) => (failAt > 0 /\ ShapeAt(result, failAt))

\* a failure at a token that has a consumed token before it and a token of
\* another kind and line after it
C5_Witness ==
    /\ Rejected
    /\ failAt > 1
    /\ failAt < Len(tokens)
    /\ tokens[failAt + 1] # tokens[failAt]
    /\ tokens[failAt - 1] # tokens[failAt]
    /\ LineOf(failAt + 1) # LineOf(failAt)

\* C6: once a failure was produced no token is consumed, the failure travels
\* to the caller of the entry rule unchanged, and a run builds at most one
\* diagnostic.
C6_FirstFailureWins ==
    /\ [](Len(diags) <= 1)
    /\ [](IsErr(result) => (diags = <<result>> /\ cursor = failAt))
    /\ []((Done /\ diags # <<>>) => result = diags[1])
    /\ [][(IsErr(result) /\ ~Done) =>
            (cursor' = cursor /\ result' = result /\ diags' = diags /\ eats' = eats)]_vars

\* a failure of factor reached the caller of program through the rules between
C6_Witness ==
    /\ Rejected
    /\ entry = "program"
    /\ result.reason = "Expected factor"
    /\ failAt > 6

\* the alternative of statement for a current and a one-ahead token
Alternative(current, ahead) ==
    CASE current = "KwIf" -> "if_statement"
      [] current = "KwReturn" -> "return_statement"
      [] current = "KwPrintf" -> "printf"
      [] current = "Identifier" /\ ahead = "Assign" -> "stat_assignment"
      [] current = "Identifier" /\ ahead = "LeftParenthesis" -> "function_call"
      [] OTHER -> "none"

Dispatching == At("statement") /\ Top.pc = 0

XAssign == <<"Identifier", "Assign", "ConstInt", "Semicolon">>

XCall == <<"Identifier", "LeftParenthesis", "RightParenthesis", "Semicolon">>

XCallUnclosed == <<"Identifier", "LeftParenthesis", "Semicolon">>

\* C7: statement picks its alternative from the current and the one-ahead
\* token alone, in the order if, return, printf, identifier "=", identifier
\* "("; in every other case it fails with "Expected statement" and consumes
\* nothing.  "x = 1;" and "x();" are accepted in a statement list, "x ( ;" is
\* rejected with "Expected ')'".
C7_StatementDispatch ==
    /\ [][Dispatching =>
            LET alt == Alternative(current_token, peek_token)
            IN  /\ cursor' = cursor
                /\ IF alt = "none"
                   THEN /\ stack' = Popped
                        /\ IsErr(result')
                        /\ result'.reason = "Expected statement"
                   ELSE /\ Len(stack') = Len(stack) + 1
                        /\ stack'[Len(stack')] = [rule |-> alt, pc |-> 0]
                        /\ ~IsErr(result')]_vars
    /\ []((Done /\ entry = "statement_list" /\ tokens \in {XAssign, XCall}) =>
            (result = Ok /\ AtEndOfInput))
    /\ []((Done /\ entry = "statement_list" /\ tokens = XCallUnclosed) =>
            (IsErr(result) /\ result.reason = "Expected ')'"))

\* "x ( ;" was given to statement_list and rejected
C7_Witness == Rejected /\ entry = "statement_list" /\ tokens = XCallUnclosed

\* C8: every run ends, with success or with the first failure, and no rule is
\* entered twice at the same cursor position: every loop iteration and every
\* recursive call starts further on in the text than the one before.
C8_Terminates ==
    /\ [](~reentered)
    /\ [](\A c \in entered : c[2] <= Len(tokens) + 1)
    /\ <>[]Done

\* a run ended after statement_list looped and block, assignment and factor
\* were entered from within themselves
C8_Witness ==
    /\ Done
    /\ Cardinality({c \in entered : c[1] = "function_definition"}) > 1
    /\ Cardinality({c \in entered : c[1] = "block"}) > 1
    /\ Cardinality({c \in entered : c[1] = "assignment"}) > 1
    /\ Cardinality({c \in entered : c[1] = "factor"}) > 1

ReturnWithoutSemicolon ==
    [status |-> "err", reason |-> "Expected ';' after return statement",
     form |-> ". Reached EOF", line |-> 0, text |-> ""]

\* statement was invoked at a return that is followed by the end of input, or
\* by an assignment and then the end of input
StatementAtUnterminatedReturn(c) ==
    /\ <<"statement", c>> \in entered
    /\ c <= Len(tokens)
    /\ tokens[c] = "KwReturn"
    /\ (c = Len(tokens) \/ Len(tokens) \in G_assignment(tokens, c))

\* C9: return_statement at a return followed by the end of input or by ";"
\* succeeds having consumed the return token alone; statement at a return
\* followed by the end of input, or by an assignment and the end of input,
\* fails with "Expected ';' after return statement. Reached EOF", whatever
\* rule the run was started with.
C9_SemicolonDemandedByStatement ==
    /\ (/\ Done
        /\ entry = "return_statement"
        /\ Len(tokens) >= 1
        /\ tokens[1] = "KwReturn"
        /\ (Len(tokens) = 1 \/ tokens[2] = "Semicolon"))
       => (result = Ok /\ cursor = 2 /\ eats = 1)
    /\ \A c \in 1..Len(tokens) :
        (Done /\ StatementAtUnterminatedReturn(c)) => result = ReturnWithoutSemicolon

\* parse ended on a function body that stops after "return" and an assignment
C9_Witness ==
    /\ Done
    /\ entry = "program"
    /\ \E c \in 1..(Len(tokens) - 1) : StatementAtUnterminatedReturn(c)

\* the token at c is "{" or starts a statement
CanStartBlock(c) ==
    /\ c <= Len(tokens)
    /\ \/ tokens[c] \in {"LeftBrace", "KwIf", "KwReturn", "KwPrintf"}
       \/ /\ tokens[c] = "Identifier"
          /\ c < Len(tokens)
          /\ tokens[c + 1] \in {"Assign", "LeftParenthesis"}

\* C10: statement_list at a token that cannot start a block succeeds and
\* consumes nothing; it never fails by itself, only when a block it started
\* after the lookahead test fails; on success it stops at the first token that
\* cannot start a block and leaves it unconsumed.
C10_StatementListStopsQuietly ==
    /\ []((Done /\ entry = "statement_list" /\ ~CanStartBlock(1)) =>
            (result = Ok /\ cursor = 1 /\ eats = 0))
    /\ []((Done /\ entry = "statement_list" /\ result = Ok) => ~CanStartBlock(cursor))
    /\ []((Done /\ entry = "statement_list" /\ IsErr(result)) =>
            \E c \in 1..Len(tokens) : <<"block", c>> \in entered /\ CanStartBlock(c))
    /\ [][At("statement_list") =>
            /\ ~IsErr(result')
            /\ cursor' = cursor
            /\ CanStartBlock(cursor) <=> (Len(stack') = Len(stack) + 1)]_vars

\* statement_list returned success after some blocks, in front of a token that
\* cannot start a block
C10_Witness ==
    /\ Accepted
    /\ entry = "statement_list"
    /\ cursor > 1
    /\ cursor <= Len(tokens)

Min(S) == CHOOSE m \in S : \A n \in S : m <= n

\* the first position at which the texts a and b differ
FirstDifference(a, b) ==
    Min({i \in 1..(Len(a) + 1) : i > Len(a) \/ i > Len(b) \/ a[i] # b[i]})

\* C11: eat is invoked only while a current token exists, so the cursor never
\* passes the end of input; within a run the cursor never decreases and grows
\* by one exactly when a token is consumed; and no decision looks further than
\* one token past the cursor: a run that returned with the cursor at c returns
\* the same, at the same cursor, on every text that agrees with its own up to
\* position c + 1.
C11_EatGuardedLookaheadBounded ==
    /\ [](blindEats = 0)
    /\ [](cursor \in 1..(Len(tokens) + 1))
    /\ [](cursor = eats + 1)
    /\ [][~Done =>
            \/ cursor' = cursor /\ eats' = eats
            \/ cursor' = cursor + 1 /\ eats' = eats + 1 /\ current_token # NoToken]_vars
    /\ []((Done /\ phase = "edited" /\ FirstDifference(orig, tokens) > origCursor + 1) =>
            (result = origResult /\ cursor = origCursor))

\* a run consumed tokens and returned two tokens before the place where its
\* text departs from the first text
C11_Witness ==
    /\ Done
    /\ phase = "edited"
    /\ eats > 0
    /\ FirstDifference(orig, tokens) = origCursor + 2
    /\ FirstDifference(orig, tokens) <= Len(tokens)

=============================================================================
